---- MODULE Spec2Model ----
(***************************************************************************)
(* A model of scot (Server-Client over TCP): the acceptor loop of          *)
(* Server::start / start_with_listener / __next_client, the per-connection *)
(* session task with its tokio::select! over the broadcast receiver and    *)
(* the framed client stream, the Recipients selector, the handlers and     *)
(* State of the chat-server examples, and the two activities of the Client *)
(* runtime (Client::start_with_stream).                                    *)
(***************************************************************************)
EXTENDS Integers, Sequences, FiniteSets, TLC

\* ------------------------------------------------------------------ bounds
\* Connections the listener hands to the acceptor.
MaxConns == 2
\* Things the clients do (a frame written, a close, a reset), all
\* connections together.
MaxEvents == 2
\* Frames the flooding client writes in the lag scenario (SpecLag).
LagFrames == 17
\* Longest Vec<T> drawn as an input of the pure Recipients functions.
MaxLen == 3
\* Frames the server writes to the client, and lines its input source
\* delivers, in the Client runtime scenario (SpecClient).
MaxFrames == 3

\* broadcast::channel(10): the capacity asked of the Broadcast Bus.
BusCapacity == 10

RECURSIVE pow2_from(_, _)
pow2_from(p, n) == IF p >= n THEN p ELSE pow2_from(2 * p, n)

\* usize::next_power_of_two, which tokio's broadcast::channel applies to the
\* capacity it is given before it allocates the ring.
next_power_of_two(n) == pow2_from(1, n)

\* The slots of the ring: the messages the bus retains for a receiver that
\* does not receive (16 for a requested capacity of 10).
RingSlots == next_power_of_two(BusCapacity)

Conns == 1 .. MaxConns
\* The values Uuid::new_v4() draws from; 0 stands for "no identifier yet".
Uuids == 1 .. (MaxConns + 1)
NoId == 0

VARIABLES
  acceptor,        \* "init" | "loop" | "err_bind" | "err_accept" | "err_setup"
                   \* | "panicked"
  accepted,        \* connections listener.accept() has returned
  joinCalls,       \* invocations of State::on_join
  minted,          \* the identifiers on_join returned, in call order
  users,           \* ServerState.users
  message_counter, \* ServerState.message_counter
  status,          \* per connection: "none" | "aborted" | "active" | "panicked"
  id,              \* per connection: the id captured by the session task
  cursor,          \* per connection: bus messages before the receiver's position
  subAt,           \* per connection: bus messages sent before it subscribed
  bus,             \* every (value, recipients) sent on the broadcast channel,
                   \* each with the users snapshot its handler had read
  sock,            \* per connection, the client's end: "none" | "open" | "eof" | "err"
  wire,            \* per connection: frames written by the client, not yet read
  sent,            \* per connection: frames the client has written
  out,             \* per connection: values response_sender.send accepted
  hpc,             \* per connection: where handle_client_message stands
  pending,         \* per connection: the (message, recipients) a handler built
  consumed,        \* per connection: what try_next yielded (frames and errors)
  handled,         \* per connection: messages given to handle_client_message
  badCalls,        \* per connection: invocations of handle_bad_message
  sendErrCalls,    \* per connection: invocations of handle_broadcast_send_err
  recvErrCalls,    \* per connection: invocations of handle_broadcast_recv_err
  missed,          \* per connection: sum of the n of the Lagged(n) it received
  offered,         \* per connection: bus positions recv() returned Ok for
  decided,         \* per connection: (position, should_send) of each Ok recv
  eofSeen,         \* per connection: try_next has yielded Ok(None)
  arg,             \* input of a pure Recipients function (SpecFn)
  ret,             \* its result (SpecFn)
  client,          \* the Client runtime of one peer (SpecClient)
  mutex            \* the Mutex of an Arc<Mutex<T>> State: its kind, poisoned or not

vars == << acceptor, accepted, joinCalls, minted, users, message_counter,
           status, id, cursor, subAt, bus, sock, wire, sent, out, hpc, pending,
           consumed, handled, badCalls, sendErrCalls, recvErrCalls, missed,
           offered, decided, eofSeen, arg, ret, client, mutex >>

\* ------------------------------------------------------------- Recipients

\* The three variants of enum Recipients<T>; a Vec<T> is a sequence.
Everyone == [tag |-> "Everyone", recipient |-> NoId, recipients |-> << >>]
SingleRecipient(r) ==
  [tag |-> "SingleRecipient", recipient |-> r, recipients |-> << >>]
MultipleRecipients(rs) ==
  [tag |-> "MultipleRecipients", recipient |-> NoId, recipients |-> rs]

\* Vec::contains: some element equals x.
contains(v, x) == \E i \in 1 .. Len(v) : v[i] = x

RECURSIVE filter_ne(_, _)
\* clients.into_iter().filter(|x| x != client_id).collect(), front to back.
filter_ne(clients, client_id) ==
  IF clients = << >> THEN << >>
  ELSE IF Head(clients) # client_id
       THEN << Head(clients) >> \o filter_ne(Tail(clients), client_id)
       ELSE filter_ne(Tail(clients), client_id)

\* Mutant of everyone_but: the filter is left out.
everyone_but_unfiltered(client_id, clients) == MultipleRecipients(clients)

\* Recipients::everyone_but.
everyone_but(client_id, clients) ==
  MultipleRecipients(filter_ne(clients, client_id))

\* Mutant of should_send: MultipleRecipients looks at the first element only.
should_send_first(recipients, my_id) ==
  CASE recipients.tag = "Everyone" -> TRUE
    [] recipients.tag = "SingleRecipient" -> recipients.recipient = my_id
    [] recipients.tag = "MultipleRecipients" ->
         recipients.recipients # << >> /\ recipients.recipients[1] = my_id

\* Mutant of should_send: the MultipleRecipients arm never matches.
should_send_never(recipients, my_id) ==
  CASE recipients.tag = "Everyone" -> TRUE
    [] recipients.tag = "SingleRecipient" -> recipients.recipient = my_id
    [] recipients.tag = "MultipleRecipients" -> FALSE

\* Mutant of should_send: every session forwards every bus message.
should_send_all(recipients, my_id) == TRUE

\* The match that computes should_send in the session's bus branch.
should_send(recipients, my_id) ==
  CASE recipients.tag = "Everyone" -> TRUE
    [] recipients.tag = "SingleRecipient" -> recipients.recipient = my_id
    [] recipients.tag = "MultipleRecipients" -> contains(recipients.recipients, my_id)

\* ------------------------------------------------------------------ state

Range(s) == { s[i] : i \in 1 .. Len(s) }

\* Uuid::new_v4(): a value no earlier call returned (a random 122-bit draw,
\* taken as collision-free).
new_v4 == CHOOSE u \in Uuids : u \notin Range(minted)

\* Mutant of on_join: hands out the first registered user's id again.
on_join_reuse(us) ==
  LET new == IF us = << >> THEN new_v4 ELSE Head(us)
  IN  [id |-> new, users |-> Append(us, new)]

\* ServerState::on_join: mint an id, push it on users, return it.
on_join(us) ==
  LET new == new_v4 IN [id |-> new, users |-> Append(us, new)]

\* The api's ServerMessage values, as serde_json::Value.
PingResponse == [type |-> "PingResponse", user_id |-> NoId, message |-> 0]
ChatMessage(user_id, message) ==
  [type |-> "ChatMessage", user_id |-> user_id, message |-> message]

\* What a client can put in a frame: the JSON of a ClientMessage, or bytes
\* that are not the JSON of any ClientMessage.
FrameKinds == { "Ping", "ChatMessage", "garbage" }

\* SymmetricalJson::<ClientMessage> on one frame: Ok(msg) or Err.
decode(frame) ==
  IF frame.json \in { "Ping", "ChatMessage" }
  THEN [ok |-> TRUE, msg |-> [type |-> frame.json, message |-> frame.message]]
  ELSE [ok |-> FALSE, msg |-> [type |-> "none", message |-> 0]]

\* Live clones of the broadcast Sender: the acceptor's, and one in the
\* ServerMessageChannels of every running session task.
SenderCount ==
  (IF acceptor \in { "init", "loop", "joining", "setup" } THEN 1 ELSE 0)
  + Cardinality({ c \in Conns : status[c] = "active" })

\* Messages the ring no longer retains.
Dropped == IF Len(bus) > RingSlots THEN Len(bus) - RingSlots ELSE 0

\* Mutant of recv: a receiver that lagged resumes at the newest message,
\* dropping what the ring still retains.
recv_resume_newest(c) ==
  IF cursor[c] < Dropped
  THEN [kind |-> "Lagged", missed |-> Len(bus) - cursor[c], next |-> Len(bus)]
  ELSE IF cursor[c] < Len(bus)
  THEN [kind |-> "Ok", missed |-> 0, next |-> cursor[c] + 1]
  ELSE IF SenderCount = 0
  THEN [kind |-> "Closed", missed |-> 0, next |-> cursor[c]]
  ELSE [kind |-> "Pending", missed |-> 0, next |-> cursor[c]]

\* broadcast::Receiver::recv for the receiver of connection c.
recv(c) ==
  IF cursor[c] < Dropped
  THEN [kind |-> "Lagged", missed |-> Dropped - cursor[c], next |-> Dropped]
  ELSE IF cursor[c] < Len(bus)
  THEN [kind |-> "Ok", missed |-> 0, next |-> cursor[c] + 1]
  ELSE IF SenderCount = 0
  THEN [kind |-> "Closed", missed |-> 0, next |-> cursor[c]]
  ELSE [kind |-> "Pending", missed |-> 0, next |-> cursor[c]]

\* response_sender.send(value).await: with the peer gone the write may still
\* be accepted by the kernel or fail.
SendOutcomes(c) == IF sock[c] = "open" THEN { "Ok" } ELSE { "Ok", "Err" }

\* Client::start_with_stream once the socket is duplicated and framed: the
\* dispatch task is spawned and awaits receiver.next(), the loop has invoked
\* next_input for the first time, nothing was read or written yet.
ClientStart ==
  [ inbox |-> << >>,      \* frames the server wrote, not yet read by receiver
    served |-> 0,         \* frames the server has written
    open |-> TRUE,        \* the server has not closed the stream
    dpc |-> "recv",       \* dispatch task: "recv" | "handling" | "hflush" | "stuck"
                          \* | "done"
    replied |-> FALSE,    \* the running handler call has sent its reply
    dispatched |-> << >>, \* handler calls made: "msg" | "bad", in order
    ipc |-> "waiting",    \* next_input: "waiting" | "sending" | "flush" | "return"
                          \* | "panicked"
    invoked |-> 1,        \* invocations of next_input
    inputs |-> 0,         \* lines the input source has delivered
    written |-> 0,        \* frames next_input sent on input_handler_sender
    mid |-> { },          \* writers with a frame begun on the socket, not finished
    torn |-> FALSE ]      \* bytes of one frame were written inside another frame

InitState ==
  /\ acceptor = "init"
  /\ accepted = 0
  /\ joinCalls = 0
  /\ minted = << >>
  /\ users = << >>
  /\ message_counter = 0
  /\ status = [c \in Conns |-> "none"]
  /\ id = [c \in Conns |-> NoId]
  /\ cursor = [c \in Conns |-> 0]
  /\ subAt = [c \in Conns |-> 0]
  /\ bus = << >>
  /\ sock = [c \in Conns |-> "none"]
  /\ wire = [c \in Conns |-> << >>]
  /\ sent = [c \in Conns |-> 0]
  /\ out = [c \in Conns |-> << >>]
  /\ hpc = [c \in Conns |-> "idle"]
  /\ pending = [c \in Conns |-> << >>]
  /\ consumed = [c \in Conns |-> << >>]
  /\ handled = [c \in Conns |-> << >>]
  /\ badCalls = [c \in Conns |-> 0]
  /\ sendErrCalls = [c \in Conns |-> 0]
  /\ recvErrCalls = [c \in Conns |-> 0]
  /\ missed = [c \in Conns |-> 0]
  /\ offered = [c \in Conns |-> << >>]
  /\ decided = [c \in Conns |-> << >>]
  /\ eofSeen = [c \in Conns |-> FALSE]
  /\ arg = [op |-> "none"]
  /\ ret = [op |-> "none"]
  /\ client = ClientStart

\* The example servers keep their state behind parking_lot::Mutex.
Init == InitState /\ mutex = [kind |-> "parking_lot", poisoned |-> FALSE]

serverVars ==
  << acceptor, accepted, joinCalls, minted, users, status, id, cursor, subAt >>
stateVars == << users, message_counter >>
clientVars == << sock, wire, sent >>
hookVars == << badCalls, sendErrCalls, recvErrCalls, missed >>
fnVars == << arg, ret >>

RECURSIVE SumOver(_, _)
SumOver(f, S) ==
  IF S = {} THEN 0
  ELSE LET x == CHOOSE y \in S : TRUE IN f[x] + SumOver(f, S \ {x})

\* What the clients have done so far: frames written, sockets closed or reset.
ClientEvents ==
  SumOver(sent, Conns) + Cardinality({ c \in Conns : sock[c] \in { "eof", "err" } })

\* Mutant of ReceiverCount: the session tasks' receivers do not keep the
\* bus open, only _rx of start_with_listener does.
ReceiverCount_acceptor_only ==
  IF acceptor \in { "init", "loop", "joining", "setup" } THEN 1 ELSE 0

\* Live broadcast Receivers: _rx of start_with_listener, the
\* broadcast_receiver local to a running __next_client, and the
\* broadcast_receiver of every running session task.
ReceiverCount ==
  (IF acceptor \in { "init", "loop", "joining", "setup" } THEN 1 ELSE 0)
  + (IF acceptor \in { "joining", "setup" } THEN 1 ELSE 0)
  + Cardinality({ c \in Conns : status[c] = "active" })

\* ---------------------------------------------------------------- acceptor

\* Server::start: TcpListener::bind(addr).await?, then start_with_listener.
start(ok) ==
  /\ acceptor = "init"
  /\ acceptor' = IF ok THEN "loop" ELSE "err_bind"
  /\ UNCHANGED << accepted, joinCalls, minted, users, message_counter, status,
                  id, cursor, subAt, bus, sock, wire, sent, out, hpc, pending,
                  consumed, handled, badCalls, sendErrCalls, recvErrCalls, missed,
                  offered, decided, eofSeen, arg, ret, client, mutex >>

\* Mutant of next_client: on_join is called after the socket was duplicated,
\* so a connection whose setup fails never joins.
next_client_join_late(outcome) ==
  /\ acceptor = "loop"
  /\ IF outcome = "accept_err"
     THEN /\ acceptor' = "err_accept"
          /\ UNCHANGED << accepted, joinCalls, minted, users, status, id,
                          cursor, subAt, sock >>
     ELSE LET c == accepted + 1
              j == on_join(users)
          IN  /\ accepted < MaxConns
              /\ accepted' = c
              /\ sock' = [sock EXCEPT ![c] = "open"]
              /\ cursor' = [cursor EXCEPT ![c] = Len(bus)]
              /\ subAt' = [subAt EXCEPT ![c] = Len(bus)]
              /\ IF outcome = "setup_err"
                 THEN /\ acceptor' = "err_setup"
                      /\ status' = [status EXCEPT ![c] = "aborted"]
                      /\ UNCHANGED << id, joinCalls, minted, users >>
                 ELSE /\ acceptor' = acceptor
                      /\ status' = [status EXCEPT ![c] = "active"]
                      /\ id' = [id EXCEPT ![c] = j.id]
                      /\ joinCalls' = joinCalls + 1
                      /\ minted' = Append(minted, j.id)
                      /\ users' = j.users
  /\ UNCHANGED << message_counter, bus, wire, sent, out, hpc, pending,
                  consumed, handled, badCalls, sendErrCalls, recvErrCalls,
                  missed, offered, decided, eofSeen, arg, ret, client, mutex >>

\* state.on_join() through impl State for Arc<Mutex<T>>: the std adapter is
\* self.lock().unwrap().on_join(), which panics when the mutex is poisoned;
\* the parking_lot adapter is self.lock().on_join(), which cannot fail.
adapter_lock_ok == ~(mutex.kind = "std" /\ mutex.poisoned)

\* One iteration of the loop of start_with_listener: __next_client(...).await?
\* A poisoned std mutex makes on_join panic inside __next_client, which
\* unwinds start_with_listener.
\* outcome "accept_err": listener.accept() fails; "setup_err": into_std,
\* try_clone or from_std fails; "spawned": the session task is spawned.
next_client(outcome) ==
  /\ acceptor = "loop"
  /\ IF outcome = "accept_err"
     THEN /\ acceptor' = "err_accept"
          /\ UNCHANGED << accepted, joinCalls, minted, users, status, id,
                          cursor, subAt, sock >>
     ELSE LET c == accepted + 1
              j == on_join(users)
          IN  /\ accepted < MaxConns
              /\ accepted' = c
              /\ sock' = [sock EXCEPT ![c] = "open"]
              /\ cursor' = [cursor EXCEPT ![c] = Len(bus)]
              /\ subAt' = [subAt EXCEPT ![c] = Len(bus)]
              /\ joinCalls' = joinCalls + 1
              /\ IF ~adapter_lock_ok
                 THEN /\ acceptor' = "panicked"
                      /\ status' = [status EXCEPT ![c] = "aborted"]
                      /\ UNCHANGED << minted, users, id >>
                 ELSE /\ minted' = Append(minted, j.id)
                      /\ users' = j.users
                      /\ IF outcome = "setup_err"
                         THEN /\ acceptor' = "err_setup"
                              /\ status' = [status EXCEPT ![c] = "aborted"]
                              /\ id' = id
                         ELSE /\ acceptor' = acceptor
                              /\ status' = [status EXCEPT ![c] = "active"]
                              /\ id' = [id EXCEPT ![c] = j.id]
  /\ UNCHANGED << message_counter, bus, wire, sent, out, hpc, pending,
                  consumed, handled, badCalls, sendErrCalls, recvErrCalls, missed,
                  offered, decided, eofSeen, arg, ret, client, mutex >>

\* ----------------------------------------------------------------- clients

\* The peer writes one frame (Client::start_with_stream's next_input sending
\* on input_handler_sender, or any other peer writing bytes).
ClientWrite(c, json, limit) ==
  /\ status[c] = "active"
  /\ sock[c] = "open"
  /\ ClientEvents < limit
  /\ sent' = [sent EXCEPT ![c] = @ + 1]
  /\ wire' = [wire EXCEPT ![c] = Append(@, [json |-> json, message |-> sent[c] + 1])]
  /\ UNCHANGED << acceptor, accepted, joinCalls, minted, users, message_counter,
                  status, id, cursor, subAt, bus, sock, out, hpc, pending, consumed,
                  handled, badCalls, sendErrCalls, recvErrCalls, missed, offered,
                  decided, eofSeen, arg, ret, client, mutex >>

\* The peer closes its socket: after the frames in flight the inbound half
\* yields end-of-stream.
ClientClose(c, limit) ==
  /\ status[c] = "active"
  /\ sock[c] = "open"
  /\ ClientEvents < limit
  /\ sock' = [sock EXCEPT ![c] = "eof"]
  /\ UNCHANGED << acceptor, accepted, joinCalls, minted, users, message_counter,
                  status, id, cursor, subAt, bus, wire, sent, out, hpc, pending,
                  consumed, handled, badCalls, sendErrCalls, recvErrCalls, missed,
                  offered, decided, eofSeen, arg, ret, client, mutex >>

\* The connection breaks: frames in flight are lost and the next read errs.
ClientReset(c, limit) ==
  /\ status[c] = "active"
  /\ sock[c] = "open"
  /\ ClientEvents < limit
  /\ sock' = [sock EXCEPT ![c] = "err"]
  /\ wire' = [wire EXCEPT ![c] = << >>]
  /\ UNCHANGED << acceptor, accepted, joinCalls, minted, users, message_counter,
                  status, id, cursor, subAt, bus, sent, out, hpc, pending, consumed,
                  handled, badCalls, sendErrCalls, recvErrCalls, missed, offered,
                  decided, eofSeen, arg, ret, client, mutex >>

\* ---------------------------------------------------------------- sessions

\* Mutant of try_next: the decoder yields the newest buffered frame.
try_next_newest(c) ==
  IF wire[c] # << >>
  THEN LET f == wire[c][Len(wire[c])]
           r == decode(f)
       IN  IF r.ok
           THEN [kind |-> "msg", msg |-> r.msg, log |-> f.json]
           ELSE [kind |-> "bad", msg |-> r.msg, log |-> f.json]
  ELSE IF sock[c] = "err"
  THEN [kind |-> "io_error", msg |-> [type |-> "none", message |-> 0], log |-> "io_error"]
  ELSE [kind |-> "eof", msg |-> [type |-> "none", message |-> 0], log |-> "eof"]

\* client_message_receiver.try_next() once it is ready: the next frame
\* decoded, a decode error, an i/o error, or end-of-stream.
try_next(c) ==
  IF wire[c] # << >>
  THEN LET r == decode(Head(wire[c]))
       IN  IF r.ok
           THEN [kind |-> "msg", msg |-> r.msg, log |-> Head(wire[c]).json]
           ELSE [kind |-> "bad", msg |-> r.msg, log |-> Head(wire[c]).json]
  ELSE IF sock[c] = "err"
  THEN [kind |-> "io_error", msg |-> [type |-> "none", message |-> 0], log |-> "io_error"]
  ELSE [kind |-> "eof", msg |-> [type |-> "none", message |-> 0], log |-> "eof"]

\* Mutant of after_client_event: an undecodable frame or a read error ends
\* the session.
after_client_event_fatal(ev) ==
  IF ev.kind \in { "bad", "io_error" } THEN "closed" ELSE "active"

\* What the session task is after try_next yielded ev and its match arm ran
\* (Ok(Some) and Err call a handler, Ok(None) does nothing): the loop goes on.
after_client_event(ev) == "active"

\* Mutant of handle_client_message: a chat message is published for
\* Recipients::Everyone.
handle_client_message_everyone(c, msg, outcome) ==
  IF msg.type = "Ping"
  THEN /\ out' = IF outcome = "Ok"
                 THEN [out EXCEPT ![c] = Append(@, PingResponse)]
                 ELSE out
       /\ status' = IF outcome = "Ok" THEN status
                    ELSE [status EXCEPT ![c] = "panicked"]
       /\ UNCHANGED << hpc, pending >>
  ELSE /\ pending' = [pending EXCEPT ![c] =
                        << [value |-> ChatMessage(id[c], msg.message),
                            recipients |-> Everyone,
                            snapshot |-> users] >>]
       /\ hpc' = [hpc EXCEPT ![c] = "incr"]
       /\ UNCHANGED << out, status >>

\* Mutant of handle_client_message: the PingResponse is published on the
\* bus for Recipients::Everyone instead of sent on response_sender.
handle_client_message_ping_broadcast(c, msg, outcome) ==
  IF msg.type = "Ping"
  THEN /\ pending' = [pending EXCEPT ![c] =
                        << [value |-> PingResponse,
                            recipients |-> Everyone,
                            snapshot |-> users] >>]
       /\ hpc' = [hpc EXCEPT ![c] = "publish"]
       /\ UNCHANGED << out, status >>
  ELSE /\ pending' = [pending EXCEPT ![c] =
                        << [value |-> ChatMessage(id[c], msg.message),
                            recipients |-> everyone_but(id[c], users),
                            snapshot |-> users] >>]
       /\ hpc' = [hpc EXCEPT ![c] = "incr"]
       /\ UNCHANGED << out, status >>

\* ClientMessageHandler::handle_client_message up to its first access to the
\* shared state. Ping: send PingResponse on response_sender and unwrap.
\* ChatMessage: build the value, snapshot state.users, build everyone_but
\* (snapshot keeps the handler's local `users` next to what it publishes).
handle_client_message(c, msg, outcome) ==
  IF msg.type = "Ping"
  THEN /\ out' = IF outcome = "Ok"
                 THEN [out EXCEPT ![c] = Append(@, PingResponse)]
                 ELSE out
       /\ status' = IF outcome = "Ok" THEN status
                    ELSE [status EXCEPT ![c] = "panicked"]
       /\ UNCHANGED << hpc, pending >>
  ELSE /\ pending' = [pending EXCEPT ![c] =
                        << [value |-> ChatMessage(id[c], msg.message),
                            recipients |-> everyone_but(id[c], users),
                            snapshot |-> users] >>]
       /\ hpc' = [hpc EXCEPT ![c] = "incr"]
       /\ UNCHANGED << out, status >>

\* tokio::select!: the future of client_message_receiver.try_next() is ready
\* when a frame, an error or end-of-stream is there to be read.
client_branch_ready(c) == ~(wire[c] = << >> /\ sock[c] = "open")

\* Mutant of bus_branch_ready: a biased select! that polls the client branch
\* first takes the bus branch only when the client branch is not ready.
bus_branch_ready_biased(c) ==
  recv(c).kind # "Pending" /\ ~client_branch_ready(c)

\* tokio::select!: the future of broadcast_receiver.recv() is ready when
\* recv() has a message, a Lagged notice or Closed to return.
bus_branch_ready(c) == recv(c).kind # "Pending"

\* The select! branch on client_message_receiver.try_next().
session_client_event(c, outcome) ==
  /\ status[c] = "active"
  /\ hpc[c] = "idle"
  /\ outcome \in SendOutcomes(c)
  /\ client_branch_ready(c)
  /\ LET ev == try_next(c)
     IN  /\ wire' = IF wire[c] # << >> THEN [wire EXCEPT ![c] = Tail(@)] ELSE wire
         /\ sock' = IF ev.kind = "io_error" THEN [sock EXCEPT ![c] = "eof"] ELSE sock
         /\ eofSeen' = IF ev.kind = "eof" THEN [eofSeen EXCEPT ![c] = TRUE] ELSE eofSeen
         /\ consumed' = IF ev.kind = "eof" THEN consumed
                        ELSE [consumed EXCEPT ![c] = Append(@, ev.log)]
         /\ badCalls' = IF ev.kind \in { "bad", "io_error" }
                        THEN [badCalls EXCEPT ![c] = @ + 1]
                        ELSE badCalls
         /\ handled' = IF ev.kind = "msg"
                       THEN [handled EXCEPT ![c] = Append(@, ev.msg)]
                       ELSE handled
         /\ IF ev.kind = "msg"
            THEN handle_client_message(c, ev.msg, outcome)
            ELSE /\ status' = [status EXCEPT ![c] = after_client_event(ev)]
                 /\ UNCHANGED << out, hpc, pending >>
  /\ UNCHANGED << acceptor, accepted, joinCalls, minted, users, message_counter,
                  id, cursor, subAt, bus, sent, sendErrCalls, recvErrCalls, missed, offered,
                  decided, arg, ret, client, mutex >>

\* Mutant of handler_incr: get_state hands every session a copy of the state
\* of its own, so the counter a handler increments has seen only the
\* increments of its own session.
handler_incr_private(c) ==
  /\ status[c] = "active"
  /\ hpc[c] = "incr"
  /\ message_counter' =
       Len(SelectSeq(handled[c], LAMBDA m : m.type = "ChatMessage"))
  /\ hpc' = [hpc EXCEPT ![c] = "publish"]
  /\ UNCHANGED << acceptor, accepted, joinCalls, minted, users, status, id,
                  cursor, subAt, bus, sock, wire, sent, out, pending, consumed,
                  handled, badCalls, sendErrCalls, recvErrCalls, missed, offered,
                  decided, eofSeen, arg, ret, client, mutex >>

\* handle_client_message, ChatMessage: state.message_counter += 1 under the
\* lock (basic-server), fetch_add(1) on the atomic (split-data-server).
handler_incr(c) ==
  /\ status[c] = "active"
  /\ hpc[c] = "incr"
  /\ message_counter' = message_counter + 1
  /\ hpc' = [hpc EXCEPT ![c] = "publish"]
  /\ UNCHANGED << acceptor, accepted, joinCalls, minted, users, status, id,
                  cursor, subAt, bus, sock, wire, sent, out, pending, consumed,
                  handled, badCalls, sendErrCalls, recvErrCalls, missed, offered,
                  decided, eofSeen, arg, ret, client, mutex >>

\* handle_client_message, ChatMessage: broadcast_sender.send(...).unwrap().
\* send fails, and unwrap panics, when no receiver is alive.
handler_publish(c) ==
  /\ status[c] = "active"
  /\ hpc[c] = "publish"
  /\ IF ReceiverCount = 0
     THEN /\ status' = [status EXCEPT ![c] = "panicked"]
          /\ bus' = bus
     ELSE /\ bus' = Append(bus, pending[c][1])
          /\ status' = status
  /\ pending' = [pending EXCEPT ![c] = << >>]
  /\ hpc' = [hpc EXCEPT ![c] = "idle"]
  /\ UNCHANGED << acceptor, accepted, joinCalls, minted, users, message_counter,
                  id, cursor, subAt, sock, wire, sent, out, consumed, handled,
                  badCalls, sendErrCalls, recvErrCalls, missed, offered, decided,
                  eofSeen, arg, ret, client, mutex >>

\* Mutant of after_bus_event: a failed forward ends the session.
after_bus_event_send_fatal(r, sendFailed) ==
  IF sendFailed THEN "closed" ELSE "active"

\* Mutant of after_bus_event: an Err from recv() ends the session.
after_bus_event_recv_fatal(r, sendFailed) ==
  IF r.kind # "Ok" THEN "closed" ELSE "active"

\* What the session task is after recv() yielded r and its match arm ran
\* (Ok forwards or not, and calls handle_broadcast_send_err when the send
\* failed; Err calls handle_broadcast_recv_err): the loop goes on.
after_bus_event(r, sendFailed) == "active"

\* Mutant of forward: every send is its own task, and a later one overtakes
\* the sends before it.
forward_racing(o, value) == << value >> \o o

\* message_channels.response_sender.send(value).await returning Ok: value is
\* the next frame on the session's outbound half.
forward(o, value) == Append(o, value)

\* The select! branch on broadcast_receiver.recv().
session_bus_event(c, outcome) ==
  /\ status[c] = "active"
  /\ hpc[c] = "idle"
  /\ outcome \in SendOutcomes(c)
  /\ bus_branch_ready(c)
  /\ LET r == recv(c)
     IN  /\ cursor' = [cursor EXCEPT ![c] = r.next]
         /\ subAt' = subAt
         /\ missed' = [missed EXCEPT ![c] = @ + r.missed]
         /\ IF r.kind = "Ok"
            THEN LET m == bus[r.next]
                     fwd == should_send(m.recipients, id[c])
                 IN  /\ offered' = [offered EXCEPT ![c] = Append(@, r.next)]
                     /\ decided' = [decided EXCEPT ![c] =
                                      Append(@, [pos |-> r.next, send |-> fwd])]
                     /\ out' = IF fwd /\ outcome = "Ok"
                               THEN [out EXCEPT ![c] = forward(@, m.value)]
                               ELSE out
                     /\ sendErrCalls' = IF fwd /\ outcome = "Err"
                                        THEN [sendErrCalls EXCEPT ![c] = @ + 1]
                                        ELSE sendErrCalls
                     /\ recvErrCalls' = recvErrCalls
                     /\ status' = [status EXCEPT ![c] =
                                     after_bus_event(r, fwd /\ outcome = "Err")]
            ELSE /\ recvErrCalls' = [recvErrCalls EXCEPT ![c] = @ + 1]
                 /\ status' = [status EXCEPT ![c] = after_bus_event(r, FALSE)]
                 /\ UNCHANGED << offered, decided, out, sendErrCalls >>
  /\ UNCHANGED << acceptor, accepted, joinCalls, minted, users, message_counter,
                  id, bus, sock, wire, sent, hpc, pending, consumed,
                  handled, badCalls, eofSeen, arg, ret, client, mutex >>

\* ------------------------------------------------------------ specification

Next ==
  \/ \E ok \in BOOLEAN : start(ok)
  \/ \E outcome \in { "accept_err", "setup_err", "spawned" } : next_client(outcome)
  \/ \E c \in Conns, json \in FrameKinds : ClientWrite(c, json, MaxEvents)
  \/ \E c \in Conns : ClientClose(c, MaxEvents)
  \/ \E c \in Conns : ClientReset(c, MaxEvents)
  \/ \E c \in Conns, outcome \in { "Ok", "Err" } : session_client_event(c, outcome)
  \/ \E c \in Conns : handler_incr(c)
  \/ \E c \in Conns : handler_publish(c)
  \/ \E c \in Conns, outcome \in { "Ok", "Err" } : session_bus_event(c, outcome)

Spec == Init /\ [][Next]_vars

\* The tokio runtime keeps polling every spawned session task, and select!
\* polls its branches in random order, so a branch that stays ready is taken.
SessionFairness ==
  \A c \in Conns :
    /\ WF_vars(\E outcome \in { "Ok", "Err" } : session_client_event(c, outcome))
    /\ WF_vars(\E outcome \in { "Ok", "Err" } : session_bus_event(c, outcome))
    /\ WF_vars(handler_incr(c))
    /\ WF_vars(handler_publish(c))

FairSpec == Init /\ [][Next]_vars /\ SessionFairness

\* The fan-out scenario: the listener binds, sessions are spawned, clients
\* send chat messages and may close; no listener or setup failure.
NextChat ==
  \/ \E ok \in { TRUE } : start(ok)
  \/ \E outcome \in { "spawned" } : next_client(outcome)
  \/ \E c \in Conns, json \in { "ChatMessage" } : ClientWrite(c, json, MaxEvents)
  \/ \E c \in Conns : ClientClose(c, MaxEvents)
  \/ \E c \in Conns, outcome \in { "Ok", "Err" } : session_client_event(c, outcome)
  \/ \E c \in Conns : handler_incr(c)
  \/ \E c \in Conns : handler_publish(c)
  \/ \E c \in Conns, outcome \in { "Ok", "Err" } : session_bus_event(c, outcome)

FairSpecChat == Init /\ [][NextChat]_vars /\ SessionFairness

\* The lag scenario: two sessions, the first connection's and the next
\* one's; the client of the first floods the server with chat messages while
\* each session receives from the bus or does not.
Flooder == CHOOSE c \in Conns : \A d \in Conns : c <= d

NextLag ==
  \/ \E ok \in { TRUE } : start(ok)
  \/ \E outcome \in { "spawned" } : accepted <= Flooder /\ next_client(outcome)
  \/ \E c \in { Flooder }, json \in { "ChatMessage" } : ClientWrite(c, json, LagFrames)
  \/ \E c \in Conns, outcome \in { "Ok" } : session_client_event(c, outcome)
  \/ \E c \in Conns : handler_incr(c)
  \/ \E c \in Conns : handler_publish(c)
  \/ \E c \in Conns, outcome \in { "Ok" } : session_bus_event(c, outcome)

SpecLag == Init /\ [][NextLag]_vars

\* A user-supplied handle_client_message panics while it runs: inside the
\* scope of its state lock guard (hpc "incr", as handler.rs 46-50, where the
\* guard is held across the increment and a println!) or after it (hpc
\* "publish"). tokio::spawn contains the panic in the session task; a
\* std::sync::Mutex whose guard is dropped by the unwinding is poisoned, a
\* parking_lot::Mutex is just released.
handler_panic(c) ==
  /\ status[c] = "active"
  /\ hpc[c] \in { "incr", "publish" }
  /\ status' = [status EXCEPT ![c] = "panicked"]
  /\ mutex' = [mutex EXCEPT !.poisoned = @ \/ (mutex.kind = "std" /\ hpc[c] = "incr")]
  /\ hpc' = [hpc EXCEPT ![c] = "idle"]
  /\ pending' = [pending EXCEPT ![c] = << >>]
  /\ UNCHANGED << acceptor, accepted, joinCalls, minted, users, message_counter,
                  id, cursor, subAt, bus, sock, wire, sent, out, consumed, handled,
                  badCalls, sendErrCalls, recvErrCalls, missed, offered, decided,
                  eofSeen, arg, ret, client >>

\* The State adapters scenario: the server's State is an Arc<Mutex<T>> of
\* either provided kind, sessions handle chat messages and Pings, and a
\* handler may panic.
InitAdapters ==
  InitState /\ mutex \in [kind : { "std", "parking_lot" }, poisoned : { FALSE }]

NextAdapters ==
  \/ \E ok \in { TRUE } : start(ok)
  \/ \E outcome \in { "spawned" } : next_client(outcome)
  \/ \E c \in Conns, json \in { "Ping", "ChatMessage" } : ClientWrite(c, json, MaxEvents)
  \/ \E c \in Conns, outcome \in { "Ok" } : session_client_event(c, outcome)
  \/ \E c \in Conns : handler_incr(c)
  \/ \E c \in Conns : handler_publish(c)
  \/ \E c \in Conns, outcome \in { "Ok" } : session_bus_event(c, outcome)
  \/ \E c \in Conns : handler_panic(c)

SpecAdapters == InitAdapters /\ [][NextAdapters]_vars

\* ------------------------------------------ __next_client, statement by
\* statement. The statements of __next_client after accept() run without an
\* await, but on a multi-thread runtime the session tasks already spawned run
\* beside them, so their handlers can snapshot the users and publish between
\* any two of them.

\* listener.accept().await?, broadcast_sender.clone() and
\* broadcast_sender.subscribe(): the new receiver starts after the messages
\* published so far.
accept_subscribe(outcome) ==
  /\ acceptor = "loop"
  /\ IF outcome = "accept_err"
     THEN /\ acceptor' = "err_accept"
          /\ UNCHANGED << accepted, cursor, subAt, sock >>
     ELSE LET c == accepted + 1
          IN  /\ accepted < MaxConns
              /\ accepted' = c
              /\ sock' = [sock EXCEPT ![c] = "open"]
              /\ cursor' = [cursor EXCEPT ![c] = Len(bus)]
              /\ subAt' = [subAt EXCEPT ![c] = Len(bus)]
              /\ acceptor' = "joining"
  /\ UNCHANGED << joinCalls, minted, users, message_counter, status, id, bus,
                  wire, sent, out, hpc, pending, consumed, handled, badCalls,
                  sendErrCalls, recvErrCalls, missed, offered, decided, eofSeen,
                  arg, ret, client, mutex >>

\* let id = state.on_join(): the identifier is minted and, in the example
\* states, pushed to users.
join ==
  /\ acceptor = "joining"
  /\ joinCalls' = joinCalls + 1
  /\ IF ~adapter_lock_ok
     THEN /\ acceptor' = "panicked"
          /\ status' = [status EXCEPT ![accepted] = "aborted"]
          /\ UNCHANGED << minted, users >>
     ELSE LET j == on_join(users)
          IN  /\ minted' = Append(minted, j.id)
              /\ users' = j.users
              /\ acceptor' = "setup"
              /\ status' = status
  /\ UNCHANGED << accepted, message_counter, id, cursor, subAt, bus, sock, wire,
                  sent, out, hpc, pending, consumed, handled, badCalls,
                  sendErrCalls, recvErrCalls, missed, offered, decided, eofSeen,
                  arg, ret, client, mutex >>

\* Mutant of spawn: the subscription is created when the session task is
\* spawned, after on_join has registered the identifier.
spawn_subscribing(outcome) ==
  /\ acceptor = "setup"
  /\ LET c == accepted
     IN  IF outcome = "setup_err"
         THEN /\ acceptor' = "err_setup"
              /\ status' = [status EXCEPT ![c] = "aborted"]
              /\ UNCHANGED << id, cursor, subAt >>
         ELSE /\ acceptor' = "loop"
              /\ status' = [status EXCEPT ![c] = "active"]
              /\ id' = [id EXCEPT ![c] = minted[c]]
              /\ cursor' = [cursor EXCEPT ![c] = Len(bus)]
              /\ subAt' = [subAt EXCEPT ![c] = Len(bus)]
  /\ UNCHANGED << accepted, joinCalls, minted, users, message_counter, bus, sock,
                  wire, sent, out, hpc, pending, consumed, handled, badCalls,
                  sendErrCalls, recvErrCalls, missed, offered, decided, eofSeen,
                  arg, ret, client, mutex >>

\* The socket is duplicated and framed (into_std()?, try_clone()?,
\* from_std()? twice) and the session task is spawned with the receiver
\* subscribed at accept and the id on_join returned.
spawn(outcome) ==
  /\ acceptor = "setup"
  /\ LET c == accepted
     IN  IF outcome = "setup_err"
         THEN /\ acceptor' = "err_setup"
              /\ status' = [status EXCEPT ![c] = "aborted"]
              /\ UNCHANGED << id, cursor, subAt >>
         ELSE /\ acceptor' = "loop"
              /\ status' = [status EXCEPT ![c] = "active"]
              /\ id' = [id EXCEPT ![c] = minted[c]]
              /\ cursor' = cursor
              /\ subAt' = subAt
  /\ UNCHANGED << accepted, joinCalls, minted, users, message_counter, bus, sock,
                  wire, sent, out, hpc, pending, consumed, handled, badCalls,
                  sendErrCalls, recvErrCalls, missed, offered, decided, eofSeen,
                  arg, ret, client, mutex >>

\* The joining scenario: connections are taken through __next_client one
\* statement at a time while the sessions already running handle chat
\* messages and receive from the bus.
NextJoin ==
  \/ \E ok \in { TRUE } : start(ok)
  \/ \E outcome \in { "accept_err", "subscribed" } : accept_subscribe(outcome)
  \/ join
  \/ \E outcome \in { "setup_err", "spawned" } : spawn(outcome)
  \/ \E c \in Conns, json \in { "ChatMessage" } : ClientWrite(c, json, MaxEvents)
  \/ \E c \in Conns, outcome \in { "Ok" } : session_client_event(c, outcome)
  \/ \E c \in Conns : handler_incr(c)
  \/ \E c \in Conns : handler_publish(c)
  \/ \E c \in Conns, outcome \in { "Ok" } : session_bus_event(c, outcome)

SpecJoin == Init /\ [][NextJoin]_vars

\* ------------------------------------------- the pure Recipients functions

\* Vec<Uuid> values of length at most MaxLen, repeats allowed.
Vecs == UNION { [1 .. n -> Uuids] : n \in 0 .. MaxLen }

Selectors ==
  { Everyone } \cup { SingleRecipient(r) : r \in Uuids }
  \cup { MultipleRecipients(v) : v \in Vecs }

FnInputs ==
  { [op |-> "should_send", recipients |-> r, id |-> i, clients |-> << >>] :
      r \in Selectors, i \in Uuids }
  \cup
  { [op |-> "everyone_but", recipients |-> Everyone, id |-> i, clients |-> v] :
      i \in Uuids, v \in Vecs }

InitFn ==
  /\ acceptor = "init"
  /\ accepted = 0
  /\ joinCalls = 0
  /\ minted = << >>
  /\ users = << >>
  /\ message_counter = 0
  /\ status = [c \in Conns |-> "none"]
  /\ id = [c \in Conns |-> NoId]
  /\ cursor = [c \in Conns |-> 0]
  /\ subAt = [c \in Conns |-> 0]
  /\ bus = << >>
  /\ sock = [c \in Conns |-> "none"]
  /\ wire = [c \in Conns |-> << >>]
  /\ sent = [c \in Conns |-> 0]
  /\ out = [c \in Conns |-> << >>]
  /\ hpc = [c \in Conns |-> "idle"]
  /\ pending = [c \in Conns |-> << >>]
  /\ consumed = [c \in Conns |-> << >>]
  /\ handled = [c \in Conns |-> << >>]
  /\ badCalls = [c \in Conns |-> 0]
  /\ sendErrCalls = [c \in Conns |-> 0]
  /\ recvErrCalls = [c \in Conns |-> 0]
  /\ missed = [c \in Conns |-> 0]
  /\ offered = [c \in Conns |-> << >>]
  /\ decided = [c \in Conns |-> << >>]
  /\ eofSeen = [c \in Conns |-> FALSE]
  /\ arg \in FnInputs
  /\ ret = [op |-> "none"]
  /\ client = ClientStart
  /\ mutex = [kind |-> "parking_lot", poisoned |-> FALSE]

\* A session evaluates the selector of a bus message against its own id.
apply_should_send ==
  /\ arg.op = "should_send"
  /\ ret.op = "none"
  /\ ret' = [op |-> "should_send", value |-> should_send(arg.recipients, arg.id)]
  /\ UNCHANGED << acceptor, accepted, joinCalls, minted, users, message_counter,
                  status, id, cursor, subAt, bus, sock, wire, sent, out, hpc, pending,
                  consumed, handled, badCalls, sendErrCalls, recvErrCalls, missed,
                  offered, decided, eofSeen, arg, client, mutex >>

\* A handler calls Recipients::everyone_but(&id, clients).
apply_everyone_but ==
  /\ arg.op = "everyone_but"
  /\ ret.op = "none"
  /\ ret' = [op |-> "everyone_but", value |-> everyone_but(arg.id, arg.clients)]
  /\ UNCHANGED << acceptor, accepted, joinCalls, minted, users, message_counter,
                  status, id, cursor, subAt, bus, sock, wire, sent, out, hpc, pending,
                  consumed, handled, badCalls, sendErrCalls, recvErrCalls, missed,
                  offered, decided, eofSeen, arg, client, mutex >>

NextFn == apply_should_send \/ apply_everyone_but

SpecFn == InitFn /\ [][NextFn]_vars

\* --------------------------------------------------------- the Client runtime

serverSide ==
  << acceptor, accepted, joinCalls, minted, users, message_counter, status, id,
     cursor, subAt, bus, sock, wire, sent, out, hpc, pending, consumed, handled,
     badCalls, sendErrCalls, recvErrCalls, missed, offered, decided, eofSeen,
     arg, ret, mutex >>

\* What the server's frames decode to at the client: a ServerMessage, or not.
ServerFrames == { "msg", "bad" }

\* What the input source delivers: an empty line (nothing is sent) or a line
\* that next_input turns into a ClientMessage.
Lines == { "empty", "text" }

\* The server writes one frame to this client.
ServerFrame(kind) ==
  /\ client.open
  /\ client.served < MaxFrames
  /\ client' = [client EXCEPT !.inbox = Append(@, kind), !.served = @ + 1]
  /\ UNCHANGED serverSide

\* The server's end of the stream goes away: receiver.next() yields None
\* after the frames in flight.
ServerClose ==
  /\ client.open
  /\ client' = [client EXCEPT !.open = FALSE]
  /\ UNCHANGED serverSide

\* One write() on the client's socket by the FramedWrite of writer w
\* ("handler": message_handler_sender, "input": input_handler_sender; both
\* wrap a try_clone of the same socket). part is "whole" when the write takes
\* the whole frame, "head" when it takes only a first part of it (a short
\* write), "rest" when it takes what was left. Bytes written while another
\* writer's frame is unfinished land inside that frame.
socket_write(cl, w, part) ==
  [cl EXCEPT !.torn = @ \/ (cl.mid \ { w } # { }),
             !.mid = IF part = "head" THEN @ \cup { w } ELSE @ \ { w }]

\* Mutant of dispatch_ready: receiver.next() is awaited in the loop of
\* next_input instead of in a spawned task, so it is polled only when
\* next_input is not suspended.
dispatch_ready_same_task(cl) ==
  cl.dpc = "recv" /\ (cl.inbox # << >> \/ ~cl.open) /\ cl.ipc # "waiting"

\* The spawned task at receiver.next().await can go on: a frame or the end
\* of the stream is there.
dispatch_ready(cl) == cl.dpc = "recv" /\ (cl.inbox # << >> \/ ~cl.open)

\* while let Some(next) = receiver.next().await: Ok(msg) calls
\* handle_server_message, Err calls handle_bad_message, None ends the task.
\* returns: whether the handler called ever returns.
dispatch_next(returns) ==
  /\ dispatch_ready(client)
  /\ IF client.inbox # << >>
     THEN client' = [client EXCEPT
                       !.inbox = Tail(@),
                       !.dispatched = Append(@, Head(client.inbox)),
                       !.replied = FALSE,
                       !.dpc = IF returns THEN "handling" ELSE "stuck"]
     ELSE client' = [client EXCEPT !.dpc = "done"]
  /\ UNCHANGED serverSide

\* handle_server_message sends a reply on response_channel (the
\* message_handler_sender): response_channel.send(reply).await, whose first
\* write takes the whole frame or a part of it.
handler_reply(part) ==
  /\ client.dpc = "handling"
  /\ ~client.replied
  /\ client.dispatched[Len(client.dispatched)] = "msg"
  /\ client' = [socket_write(client, "handler", part) EXCEPT
                  !.replied = TRUE,
                  !.dpc = IF part = "head" THEN "hflush" ELSE "handling"]
  /\ UNCHANGED serverSide

\* The rest of the reply's frame is written.
handler_flush ==
  /\ client.dpc = "hflush"
  /\ client' = [socket_write(client, "handler", "rest") EXCEPT !.dpc = "handling"]
  /\ UNCHANGED serverSide

\* handle_server_message / handle_bad_message returns; the task loops.
dispatch_return ==
  /\ client.dpc = "handling"
  /\ client' = [client EXCEPT !.dpc = "recv"]
  /\ UNCHANGED serverSide

\* The input source delivers a line to the suspended next_input.
UserInput(line) ==
  /\ client.ipc = "waiting"
  /\ client.inputs < MaxFrames
  /\ client' = [client EXCEPT !.inputs = @ + 1,
                              !.ipc = IF line = "empty" THEN "return" ELSE "sending"]
  /\ UNCHANGED serverSide

\* next_input: message_channel.send(...).await.unwrap(). The first write
\* takes the whole frame ("Ok") or a part of it ("Short"); with the server
\* gone the send may fail and unwrap panics.
input_send(outcome) ==
  /\ client.ipc = "sending"
  /\ outcome \in (IF client.open THEN { "Ok", "Short" } ELSE { "Ok", "Short", "Err" })
  /\ client' =
       CASE outcome = "Ok" ->
              [socket_write(client, "input", "whole") EXCEPT
                 !.written = @ + 1, !.ipc = "return"]
         [] outcome = "Short" ->
              [socket_write(client, "input", "head") EXCEPT !.ipc = "flush"]
         [] outcome = "Err" -> [client EXCEPT !.ipc = "panicked"]
  /\ UNCHANGED serverSide

\* The rest of next_input's frame is written and send returns.
input_flush ==
  /\ client.ipc = "flush"
  /\ client' = [socket_write(client, "input", "rest") EXCEPT
                  !.written = @ + 1, !.ipc = "return"]
  /\ UNCHANGED serverSide

\* next_input returns and the loop of start_with_stream invokes it again.
input_loop ==
  /\ client.ipc = "return"
  /\ client' = [client EXCEPT !.ipc = "waiting", !.invoked = @ + 1]
  /\ UNCHANGED serverSide

NextClient ==
  \/ \E kind \in ServerFrames : ServerFrame(kind)
  \/ ServerClose
  \/ \E returns \in BOOLEAN : dispatch_next(returns)
  \/ \E part \in { "whole", "head" } : handler_reply(part)
  \/ handler_flush
  \/ dispatch_return
  \/ \E line \in Lines : UserInput(line)
  \/ \E outcome \in { "Ok", "Short", "Err" } : input_send(outcome)
  \/ input_flush
  \/ input_loop

SpecClient == Init /\ [][NextClient]_vars

\* The runtime keeps polling the spawned dispatch task and the task of
\* start_with_stream; the input source and the server are under no
\* obligation, and a handler that awaits forever ("stuck") never returns.
FairSpecClient ==
  /\ SpecClient
  /\ WF_vars(\E returns \in BOOLEAN : dispatch_next(returns))
  /\ WF_vars(handler_flush)
  /\ WF_vars(dispatch_return)
  /\ WF_vars(\E outcome \in { "Ok", "Short", "Err" } : input_send(outcome))
  /\ WF_vars(input_flush)
  /\ WF_vars(input_loop)

\* ------------------------------------------------------------------ claims

\* The spec's reference function matches(selector, my_id), on sets.
matches(selector, my_id) ==
  \/ selector.tag = "Everyone"
  \/ selector.tag = "SingleRecipient" /\ selector.recipient = my_id
  \/ selector.tag = "MultipleRecipients" /\ my_id \in Range(selector.recipients)

\* C3: the forwarding decision a session computes for a selector and its own
\* identifier is matches(selector, my_id): Everyone is always true,
\* SingleRecipient(r) iff r = my_id, MultipleRecipients(rs) iff my_id is in rs.
C3_ShouldSendIsMatches ==
  ret.op = "should_send" => (ret.value <=> matches(arg.recipients, arg.id))

\* C3 witness: a decision was computed for a MultipleRecipients list with a
\* repeated member that holds the session's identifier after another one.
C3_Witness ==
  /\ ret.op = "should_send"
  /\ arg.recipients.tag = "MultipleRecipients"
  /\ Len(arg.recipients.recipients) = 3
  /\ arg.recipients.recipients[1] # arg.id
  /\ arg.recipients.recipients[2] = arg.id
  /\ arg.recipients.recipients[3] = arg.id
  /\ ret.value = TRUE

\* C4: everyone_but(id, all_ids) is MultipleRecipients whose members, as a
\* set, are all_ids minus {id}, and it never matches id.
C4_EveryoneBut ==
  ret.op = "everyone_but" =>
    /\ ret.value.tag = "MultipleRecipients"
    /\ Range(ret.value.recipients) = Range(arg.clients) \ { arg.id }
    /\ ~matches(ret.value, arg.id)
    /\ ~should_send(ret.value, arg.id)

\* C4 witness: everyone_but ran on a list that holds id twice and two other
\* identifiers, and kept exactly the two others.
C4_Witness ==
  /\ ret.op = "everyone_but"
  /\ Len(arg.clients) = 3
  /\ arg.clients[1] = arg.id
  /\ arg.clients[3] # arg.id
  /\ arg.clients[2] = arg.clients[3]
  /\ Len(ret.value.recipients) = 2

\* C7: a per-connection setup failure aborts only that connection: the step
\* in which a connection's socket setup fails leaves the acceptor loop
\* running, and leaves every existing session as it was.
C7_SetupFailureIsLocal ==
  [][ (\E c \in Conns : status[c] = "none" /\ status'[c] = "aborted") =>
        /\ acceptor' = "loop"
        /\ \A d \in Conns : status[d] = "active" => status'[d] = "active" ]_vars

\* C8: the acceptor returns only on a bind failure or an accept failure, and
\* then with an error; while neither occurs it does not return.
C8_ReturnsOnlyOnListenerFailure ==
  acceptor \in { "init", "loop", "err_bind", "err_accept" }

\* C9: all identifiers minted by on_join are pairwise distinct, and no two
\* sessions, running or ended, hold the same identifier.
C9_IdentifiersDistinct ==
  /\ \A i, k \in 1 .. Len(minted) : i # k => minted[i] # minted[k]
  /\ \A c, d \in Conns :
       c # d /\ id[c] # NoId /\ id[d] # NoId => id[c] # id[d]

\* C9 witness: every connection the model allows was accepted, each one
\* minted an identifier and each session runs.
C9_Witness ==
  /\ Len(minted) = MaxConns
  /\ \A c \in Conns : status[c] = "active" /\ id[c] # NoId

\* C10: on_join has been called as many times as connections were accepted
\* (once each), and every spawned session owns the identifier that the
\* on_join call made for its connection returned.
C10_OneJoinPerConnection ==
  /\ joinCalls = accepted
  /\ Len(minted) = joinCalls
  /\ \A c \in Conns :
       /\ status[c] \in { "active", "panicked" } => c <= accepted /\ id[c] = minted[c]
       /\ status[c] = "none" <=> c > accepted

\* C10 witness: one session was spawned and the setup of the next accepted
\* connection failed after its on_join call.
C10_Witness ==
  /\ accepted = 2
  /\ joinCalls = 2
  /\ status[1] = "active"
  /\ status[2] = "aborted"

\* C5: once the inbound half of a session has yielded end-of-stream, the
\* session eventually is Closed (its task has ended); it does not stay
\* Active forever.
C5_EofLeadsToClosed ==
  \A c \in Conns : eofSeen[c] ~> (status[c] \notin { "active" })

\* The frame kinds that decode to a ClientMessage.
WellFormed(json) == json \in { "Ping", "ChatMessage" }
Malformed(json) == json \in { "garbage", "io_error" }

\* C6: a frame that fails to decode makes the session call its own
\* handle_bad_message exactly once, no other session's hook runs, the session
\* stays Active, and the well-formed frames read before and after it are all
\* passed to handle_client_message, in order.
C6_BadMessageIsolation ==
  /\ [](\A c \in Conns :
          /\ badCalls[c] = Len(SelectSeq(consumed[c], Malformed))
          /\ Len(handled[c]) = Len(SelectSeq(consumed[c], WellFormed))
          /\ \A i \in 1 .. Len(handled[c]) :
               handled[c][i].type = SelectSeq(consumed[c], WellFormed)[i])
  /\ [][ \A c \in Conns :
           badCalls'[c] # badCalls[c] =>
             /\ badCalls'[c] = badCalls[c] + 1
             /\ \A d \in Conns \ { c } : badCalls'[d] = badCalls[d]
             /\ status[c] = "active" /\ status'[c] = "active"
             /\ hpc'[c] = "idle" ]_vars

\* C6 witness: session 1 read an undecodable frame and then a well-formed
\* one, called its bad-message hook once and its handler once, and is Active;
\* session 2 is Active and its hook never ran.
C6_Witness ==
  /\ consumed[1] = << "garbage", "Ping" >>
  /\ badCalls[1] = 1
  /\ Len(handled[1]) = 1
  /\ status[1] = "active"
  /\ status[2] = "active"
  /\ badCalls[2] = 0

\* A session whose task runs and whose client still has its socket open.
Live(c) == status[c] = "active" /\ sock[c] = "open"

\* Bus message p was published after session c subscribed, with a
\* MultipleRecipients selector that holds the identifier of c.
Targeted(c, p) ==
  /\ p <= Len(bus)
  /\ status[c] = "active"
  /\ subAt[c] < p
  /\ bus[p].recipients.tag = "MultipleRecipients"
  /\ id[c] \in Range(bus[p].recipients.recipients)

Forwarded(c, p) == p <= Len(bus) /\ bus[p].value \in Range(out[c])

\* Some bus message targeted at session c has not been forwarded by it yet.
\* (Forwarded(c, p) is stable, so "eventually nothing is owed" says that
\* every targeted message is eventually forwarded.)
Owed(c) == \E p \in 1 .. Len(bus) : Targeted(c, p) /\ ~Forwarded(c, p)

\* C1: for a publish of (payload, MultipleRecipients(subset)), every live
\* session whose identifier is in subset eventually forwards the payload on
\* its outbound half, and a session whose identifier is outside subset never
\* forwards it.
C1_FanOut ==
  /\ [](\A c \in Conns : \A p \in 1 .. Len(bus) :
          Forwarded(c, p) =>
            /\ id[c] \in Range(bus[p].recipients.recipients)
            /\ p \in Range(offered[c]))
  /\ \A c \in Conns : Owed(c) ~> (~Owed(c) \/ ~Live(c))

\* C1 witness: session 1 published a chat message for the subset {id of 2};
\* session 2 forwarded it, session 1 was offered it and did not forward it.
C1_Witness ==
  /\ Len(bus) >= 1
  /\ bus[1].recipients = MultipleRecipients(<< id[2] >>)
  /\ Live(1) /\ Live(2)
  /\ out[2] = << bus[1].value >>
  /\ offered[1] = << 1 >>
  /\ out[1] = << >>

\* The forwarding decisions of session c were each the selector of the
\* offered message evaluated against the identifier of c.
DecidedBySelector(c) ==
  /\ Len(decided[c]) = Len(offered[c])
  /\ \A i \in 1 .. Len(decided[c]) :
       /\ decided[c][i].pos = offered[c][i]
       /\ decided[c][i].send <=> matches(bus[offered[c][i]].recipients, id[c])

\* C2 as stated: every message published while a session is subscribed is
\* offered to it by recv() exactly once, so the messages its receiver has
\* moved past were each offered once, none skipped; the forwarding decision
\* depends only on the selector and the session's identifier.
C2_OfferedExactlyOnce ==
  \A c \in Conns :
    status[c] = "active" =>
      /\ Len(offered[c]) = cursor[c] - subAt[c]
      /\ \A i \in 1 .. Len(offered[c]) : offered[c][i] = subAt[c] + i
      /\ DecidedBySelector(c)

\* C2 amended: a message published while a session is subscribed is offered
\* to it at most once and in publish order; the messages its receiver moved
\* past without offering them are exactly those counted by the Lagged notices
\* it received (none when it never lagged); the forwarding decision depends
\* only on the selector and the session's identifier.
C2_OfferedAtMostOnce ==
  \A c \in Conns :
    status[c] = "active" =>
      /\ \A i \in 1 .. Len(offered[c]) :
           /\ subAt[c] < offered[c][i] /\ offered[c][i] <= cursor[c]
           /\ i > 1 => offered[c][i - 1] < offered[c][i]
      /\ Len(offered[c]) + missed[c] = cursor[c] - subAt[c]
      /\ cursor[c] <= Len(bus)
      /\ missed[c] > 0 => recvErrCalls[c] > 0
      /\ DecidedBySelector(c)

\* C2 witness: a session lagged behind more than RingSlots messages, got a
\* Lagged notice, then was offered retained messages up to the newest, one
\* of which it forwarded.
C2_Witness ==
  \E c \in Conns :
    /\ status[c] = "active"
    /\ missed[c] > 0
    /\ cursor[c] = Len(bus)
    /\ Len(offered[c]) >= RingSlots
    /\ out[c] # << >>

\* Messages published that the receiver of session c has not moved past.
Unreceived(c) == Len(bus) - cursor[c]

\* C11 as stated: with bus capacity 10, a subscribed session that did not
\* receive while more than 10 messages were published gets a lagged
\* condition from its next receive.
C11_LaggedBeyondCapacity ==
  \A c \in Conns :
    status[c] = "active" /\ Unreceived(c) > BusCapacity =>
      recv(c).kind = "Lagged"

\* C11 amended: the ring has 16 slots (the capacity 10 rounded up to a power
\* of two). A publish is never blocked by a receiver that does not receive,
\* nor is another subscriber's receive; the next receive of a session is a
\* lagged condition exactly when more than 16 messages were published since
\* its last receive, it carries the number of messages missed (those
\* published minus 16), and the receive after it yields the oldest message
\* still retained.
C11_LaggedBeyondRing ==
  /\ [](\A c \in Conns :
          status[c] = "active" =>
            /\ (Unreceived(c) > RingSlots) <=> (recv(c).kind = "Lagged")
            /\ recv(c).kind = "Lagged" =>
                 /\ recv(c).missed = Unreceived(c) - RingSlots
                 /\ recv(c).next = Len(bus) - RingSlots
            /\ hpc[c] = "publish" => ENABLED handler_publish(c)
            /\ (hpc[c] = "idle" /\ Unreceived(c) > 0) =>
                 ENABLED session_bus_event(c, "Ok"))
  /\ [][ \A c \in Conns :
           missed'[c] # missed[c] =>
             /\ missed'[c] - missed[c] = Unreceived(c) - RingSlots
             /\ cursor'[c] = Len(bus) - RingSlots
             /\ status'[c] = "active"
             /\ recv(c)'.kind = "Ok"
             /\ recv(c)'.next = Len(bus) - RingSlots + 1 ]_vars

\* C11 witness: every frame of the flood was published while a session did
\* not receive; its first receive was a lagged condition for the messages
\* beyond the 16 retained, and its second yielded the oldest retained one.
C11_Witness ==
  \E c \in Conns :
    /\ status[c] = "active"
    /\ Len(bus) = LagFrames
    /\ recvErrCalls[c] = 1
    /\ missed[c] = LagFrames - RingSlots
    /\ offered[c] = << missed[c] + 1 >>

\* C12: while a session task runs, its own clone of the broadcast Sender
\* (ServerMessageChannels.broadcast_sender) is alive, so its recv() never
\* reports that the Broadcast Bus is closed.
C12_BusNeverClosed ==
  \A c \in Conns : status[c] = "active" => recv(c).kind # "Closed"

\* C13: within one session handle_client_message runs one call at a time and
\* in wire order: a call starts only when the call before it has returned,
\* it is for the oldest frame not yet read, and the messages handled carry
\* increasing positions of the client's writes.
C13_InboundOrder ==
  /\ [](\A c \in Conns : \A i, k \in 1 .. Len(handled[c]) :
          i < k => handled[c][i].message < handled[c][k].message)
  /\ [][ \A c \in Conns :
           handled'[c] # handled[c] =>
             /\ hpc[c] = "idle"
             /\ wire[c] # << >>
             /\ handled'[c] = Append(handled[c], decode(Head(wire[c])).msg)
             /\ wire'[c] = Tail(wire[c]) ]_vars

\* C13 witness: a client wrote two chat messages back to back; the handler
\* of the first has published and returned, the handler of the second has
\* started and not yet published.
C13_Witness ==
  \E c \in Conns :
    /\ Len(handled[c]) = 2
    /\ handled[c][1] = [type |-> "ChatMessage", message |-> 1]
    /\ handled[c][2] = [type |-> "ChatMessage", message |-> 2]
    /\ Len(bus) = 1
    /\ hpc[c] = "publish"

\* The payloads session c forwarded from the bus, in the order it put them
\* on its outbound half (a PingResponse is a direct response, not a payload).
IsBusPayload(v) == v.type = "ChatMessage"
BusPayloads(c) == SelectSeq(out[c], IsBusPayload)

\* The place of payload v in the publish order.
BusPos(v) == CHOOSE p \in 1 .. Len(bus) : bus[p].value = v

\* C14: for every session, the bus payloads it has forwarded are, in the
\* order forwarded, a subsequence of the publish order: each was published,
\* and of two forwarded payloads the one forwarded first was published
\* first. This holds of all sessions in every state.
C14_ForwardedInPublishOrder ==
  \A c \in Conns :
    LET f == BusPayloads(c)
    IN  /\ \A i \in 1 .. Len(f) : \E p \in 1 .. Len(bus) : bus[p].value = f[i]
        /\ \A i, k \in 1 .. Len(f) : i < k => BusPos(f[i]) < BusPos(f[k])

\* C14 witness: a session that lagged has forwarded the oldest retained
\* message and later ones, in publish order, with the lost ones missing.
C14_Witness ==
  \E c \in Conns :
    /\ missed[c] >= 1
    /\ Len(BusPayloads(c)) >= 3
    /\ BusPos(BusPayloads(c)[1]) = missed[c] + 1
    /\ BusPos(BusPayloads(c)[3]) = missed[c] + 3

\* C15: the inbound-dispatch activity and the input-solicitation activity of
\* the Client runtime progress independently. Whatever the input source
\* does (also when next_input stays suspended for ever), a frame the server
\* wrote is eventually decoded and passed to the message handler, as long
\* as the handler calls before it return; whatever the message handler does
\* (also when it stays suspended for ever), a next_input that has its input
\* eventually sends and next_input is invoked again.
C15_ClientIndependence ==
  /\ \A n \in 0 .. MaxFrames :
       (client.inbox # << >> /\ Len(client.dispatched) = n)
         ~> (Len(client.dispatched) > n \/ client.dpc = "stuck")
  /\ \A n \in 1 .. MaxFrames + 1 :
       (client.ipc \in { "sending", "flush", "return" } /\ client.invoked = n)
         ~> (client.invoked > n \/ client.ipc = "panicked")
  /\ [][ /\ client'.dispatched # client.dispatched => client'.written = client.written
         /\ client'.written # client.written => client'.dispatched = client.dispatched
       ]_vars

\* C15 witness: the message handler never returned from its second call,
\* and since then, or before, next_input sent two frames and was invoked a
\* third time, where it is suspended waiting for input.
C15_Witness ==
  /\ client.dpc = "stuck"
  /\ Len(client.dispatched) = 2
  /\ client.written = 2
  /\ client.invoked = 3
  /\ client.ipc = "waiting"

\* Session c was registered (its on_join had completed) when the handler of
\* chat message p read state.users, c is not the sender, and c has not
\* forwarded the message.
ChatOwed(c) ==
  \E p \in 1 .. Len(bus) :
    /\ bus[p].value.type = "ChatMessage"
    /\ id[c] \in Range(bus[p].snapshot)
    /\ id[c] # bus[p].value.user_id
    /\ ~Forwarded(c, p)

\* C16: a ChatMessage from client A is published with everyone_but(A, users)
\* for the users the handler read; the session of A never forwards it to A;
\* every other session registered at that read eventually forwards it to
\* its client, unless it lags or is no longer live.
C16_ChatFanOut ==
  /\ [](\A p \in 1 .. Len(bus) :
          bus[p].value.type = "ChatMessage" =>
            /\ bus[p].recipients.tag = "MultipleRecipients"
            /\ Range(bus[p].recipients.recipients)
                 = Range(bus[p].snapshot) \ { bus[p].value.user_id }
            /\ \A c \in Conns :
                 id[c] = bus[p].value.user_id => ~Forwarded(c, p))
  /\ \A c \in Conns :
       ChatOwed(c) ~> (~ChatOwed(c) \/ ~Live(c) \/ missed[c] > 0)

\* C16 witness: with both clients connected, the second sent a chat message;
\* the first session forwarded it, the second session was offered it and
\* forwarded nothing.
C16_Witness ==
  /\ Len(bus) = 1
  /\ bus[1].value = ChatMessage(id[2], 1)
  /\ bus[1].snapshot = << id[1], id[2] >>
  /\ out[1] = << bus[1].value >>
  /\ offered[2] = << 1 >>
  /\ out[2] = << >>
  /\ Live(1) /\ Live(2)

\* The direct responses on the outbound half of session c, and the Ping
\* messages its handler was given.
IsPingResponse(v) == v.type = "PingResponse"
IsPing(m) == m.type = "Ping"
PingResponses(c) == Len(SelectSeq(out[c], IsPingResponse))
Pings(c) == Len(SelectSeq(handled[c], IsPing))

\* C17: a PingResponse sent through response_sender goes to the client whose
\* Ping is being handled and to nobody else: a session's outbound half holds
\* one PingResponse for each Ping handled by that session (but for a send
\* that failed, on which the task panicked), the step that sends one is
\* that session handling a Ping and it changes no other session's outbound
\* half, and no PingResponse is ever on the Broadcast Bus or about to be
\* published.
C17_DirectResponse ==
  /\ [](/\ \A p \in 1 .. Len(bus) : ~IsPingResponse(bus[p].value)
        /\ \A c \in Conns :
             /\ \A i \in 1 .. Len(pending[c]) : ~IsPingResponse(pending[c][i].value)
             /\ PingResponses(c) <= Pings(c)
             /\ status[c] = "active" => PingResponses(c) = Pings(c))
  /\ [][ \A c \in Conns :
           PingResponses(c)' # PingResponses(c) =>
             /\ out'[c] = Append(out[c], PingResponse)
             /\ Pings(c)' = Pings(c) + 1
             /\ bus' = bus
             /\ \A d \in Conns \ { c } : out'[d] = out[d] ]_vars

\* C17 witness: client 1 sent a Ping and then a chat message; session 1 put
\* the PingResponse on its own outbound half, session 2 forwarded the chat
\* message only.
C17_Witness ==
  /\ out[1] = << PingResponse >>
  /\ Len(bus) = 1
  /\ out[2] = << bus[1].value >>
  /\ status[1] = "active" /\ status[2] = "active"

\* The bus messages session c was offered and decided to forward.
IsSend(d) == d.send
Matching(c) == Len(SelectSeq(decided[c], IsSend))

\* C18: a failed forward of a matching bus payload calls
\* handle_broadcast_send_err once, for that session only, and is not fatal:
\* every matching message offered was either forwarded or answered by one
\* hook call, the step that calls the hook leaves the session Active at the
\* head of its loop with its receiver one message further, and the session
\* goes on to service what is pending (it reads the end of its client's
\* stream).
C18_SendErrNotFatal ==
  /\ [](\A c \in Conns :
          sendErrCalls[c] + Len(BusPayloads(c)) = Matching(c))
  /\ [][ \A c \in Conns :
           sendErrCalls'[c] # sendErrCalls[c] =>
             /\ sendErrCalls'[c] = sendErrCalls[c] + 1
             /\ \A d \in Conns \ { c } : sendErrCalls'[d] = sendErrCalls[d]
             /\ status[c] = "active" /\ status'[c] = "active"
             /\ hpc'[c] = "idle"
             /\ cursor'[c] = cursor[c] + 1
             /\ out' = out ]_vars
  /\ \A c \in Conns :
       (sendErrCalls[c] > 0 /\ ~eofSeen[c]) ~> eofSeen[c]

\* C18 witness: the client of session 1 closed its socket, the forward of a
\* chat message to it failed and the hook ran once; the session is Active
\* and has read the end of the client's stream.
C18_Witness ==
  /\ sendErrCalls[1] = 1
  /\ offered[1] = << 1 >>
  /\ out[1] = << >>
  /\ status[1] = "active"
  /\ eofSeen[1]

\* C19: a lagged notice makes the session call handle_broadcast_recv_err
\* once and go on: the hook has run exactly when the session has missed
\* messages, the step that calls it is a recv() that returned Lagged, it
\* forwards and offers nothing and leaves the session Active at the head
\* of its loop with a retained message ready to be received; whatever the session has forwarded was offered to it by an
\* Ok recv(), never one of the messages it missed.
C19_LaggedNoticeNotFatal ==
  /\ [](\A c \in Conns :
          /\ (recvErrCalls[c] > 0) <=> (missed[c] > 0)
          /\ recvErrCalls[c] <= missed[c]
          /\ \A i \in 1 .. Len(BusPayloads(c)) :
               BusPos(BusPayloads(c)[i]) \in Range(offered[c]))
  /\ [][ \A c \in Conns :
           recvErrCalls'[c] # recvErrCalls[c] =>
             /\ recvErrCalls'[c] = recvErrCalls[c] + 1
             /\ \A d \in Conns \ { c } : recvErrCalls'[d] = recvErrCalls[d]
             /\ recv(c).kind = "Lagged"
             /\ out' = out
             /\ offered' = offered
             /\ status[c] = "active" /\ status'[c] = "active"
             /\ hpc'[c] = "idle"
             /\ bus_branch_ready(c)' ]_vars

\* C19 witness: a session got one lagged notice, its hook ran once, and it
\* then forwarded every message the ring retained, up to the newest.
C19_Witness ==
  \E c \in Conns :
    /\ recvErrCalls[c] = 1
    /\ missed[c] >= 1
    /\ Len(BusPayloads(c)) = RingSlots
    /\ cursor[c] = Len(bus)
    /\ status[c] = "active"

\* A bus event waits for session c: recv() has something to return.
BusPending(c) == status[c] = "active" /\ recv(c).kind \in { "Ok", "Lagged" }

\* A client event waits for session c: a frame, or the end of the stream,
\* that try_next() has not yielded yet.
ClientPending(c) ==
  /\ status[c] = "active"
  /\ wire[c] # << >> \/ (sock[c] # "open" /\ ~eofSeen[c])

\* C20: neither source of a session starves the other. A bus event that
\* waits is eventually serviced, also when the client branch is ready at
\* every turn of the loop (as it is for ever once the client's stream has
\* ended); a client event that waits is eventually serviced, also while bus
\* events are ready: whenever an event of either source waits, a turn of the
\* loop is eventually reached at which none of either source waits. Handlers
\* return.
C20_NoStarvation ==
  \A c \in Conns :
    (BusPending(c) \/ ClientPending(c))
      ~> (~BusPending(c) /\ ~ClientPending(c))

\* C20 witness: the stream of session 2's client has ended and the session
\* has read the end, so its client branch is ready at every turn; the bus
\* message published for it was received all the same, and nothing waits.
C20_Witness ==
  /\ eofSeen[2]
  /\ status[2] = "active"
  /\ Len(bus) = 1
  /\ offered[2] = << 1 >>
  /\ ~BusPending(2) /\ ~ClientPending(2)

\* C21: a panic in a handler of one session never reaches the listener: the
\* acceptor does not panic, whichever provided State adapter the server
\* uses, so it can go on accepting connections and calling on_join.
C21_PanicNeverReachesAcceptor == acceptor # "panicked"

\* C22: the byte stream a peer's decoder sees is a concatenation of whole
\* frames: no write of one frame lands inside another frame on the client's
\* socket (a reply of handle_server_message and a message of next_input are
\* never interleaved mid-frame).
C22_WholeFrames == ~client.torn

\* C23: subscribe-before-mint. A connection's identifier is minted only once
\* its bus subscription exists; hence every Routed Message whose selector was
\* built from a snapshot of users containing a connection's identifier was
\* published after that connection's receiver subscribed, and the session,
\* once its receiver has moved past the message, was offered it (the bounds
\* keep the bus below its ring size, so nothing is dropped).
C23_SubscribeBeforeMint ==
  /\ Len(minted) <= accepted
  /\ \A c \in Conns : \A p \in 1 .. Len(bus) :
       (c <= Len(minted) /\ minted[c] \in Range(bus[p].snapshot)) =>
         /\ subAt[c] < p
         /\ (status[c] = "active" /\ p <= cursor[c]) =>
              \E i \in 1 .. Len(offered[c]) : offered[c][i] = p

\* C23 witness: a session that joined while another was running was offered
\* a message of the other session whose snapshot contained its identifier,
\* the first message published after it subscribed.
C23_Witness ==
  \E c \in Conns : \E p \in 1 .. Len(bus) :
    /\ c > 1
    /\ status[c] = "active"
    /\ minted[c] \in Range(bus[p].snapshot)
    /\ bus[p].value.user_id # id[c]
    /\ p = subAt[c] + 1
    /\ \E i \in 1 .. Len(offered[c]) : offered[c][i] = p

\* ChatMessage client messages of session c whose handler has passed the
\* increment step.
IsChat(m) == m.type = "ChatMessage"
PassedIncrement(c) ==
  Len(SelectSeq(handled[c], IsChat)) - (IF hpc[c] = "incr" THEN 1 ELSE 0)

\* C24: no lost updates. Under any interleaving of the sessions' handlers,
\* message_counter equals the total number of ChatMessage client messages,
\* over all sessions, whose handler has passed the increment step: every
\* session increments the one shared counter and no increment is lost.
C24_NoLostUpdates ==
  message_counter = SumOver([c \in Conns |-> PassedIncrement(c)], Conns)

\* C24 witness: the handlers of two sessions are in flight at once, both
\* past the increment step, and the counter shows both increments.
C24_Witness ==
  \E c, d \in Conns :
    /\ c # d
    /\ hpc[c] = "publish" /\ hpc[d] = "publish"
    /\ message_counter = 2

\* C25: publishing never fails for lack of subscribers. Whenever a handler
\* running in a session publishes on broadcast_sender, the send returns Ok:
\* the message is appended to the bus and the session keeps running (the
\* unwrap does not panic), whatever became of the acceptor and of the other
\* sessions.
C25_PublishNeverFails ==
  [][\A c \in Conns :
       handler_publish(c) =>
         /\ ReceiverCount >= 1
         /\ bus' = Append(bus, pending[c][1])
         /\ status'[c] = "active"]_vars

\* C25 witness: the acceptor has returned, dropping _rx, a single session is
\* left, it has published before and its handler is about to publish.
C25_Witness ==
  \E c \in Conns :
    /\ acceptor \in { "err_accept", "err_setup" }
    /\ \A d \in Conns : status[d] = "active" <=> d = c
    /\ hpc[c] = "publish"
    /\ Len(bus) >= 1

====
